---- MODULE Spec2Model ----
(***************************************************************************)
(* Client-side session lifecycle of the phone-number login page:          *)
(* phone validation (lib/validation.ts), the localStorage session store    *)
(* (lib/auth.ts), the identity fetch (lib/api.ts) and the LoginForm        *)
(* component (components/login-form.tsx).                                  *)
(*                                                                         *)
(* React state is modelled as committed state variables.  An event        *)
(* handler reads the values of the render that created it (its closure)    *)
(* and its state updates are committed together when it returns or         *)
(* suspends at an await.                                                   *)
(***************************************************************************)
EXTENDS Integers, Sequences, FiniteSets, TLC

\* ------------------------------------------------------------------------
\* Bounds of the model
\* ------------------------------------------------------------------------

\* largest value of retryCount from which a run may still be started
MaxCount == 4

\* largest number of consecutive failed runs observed in one lineage
MaxLineage == 4

\* ------------------------------------------------------------------------
\* Phone numbers: strings are sequences of one-character strings
\* ------------------------------------------------------------------------

Digits == {"0", "1", "2", "3", "4", "5", "6", "7", "8", "9"}

Whitespace == {" ", "\t", "\n"}

RECURSIVE TrimLeft(_)
TrimLeft(s) ==
  IF s # <<>> /\ Head(s) \in Whitespace THEN TrimLeft(Tail(s)) ELSE s

RECURSIVE TrimRight(_)
TrimRight(s) ==
  IF s # <<>> /\ s[Len(s)] \in Whitespace
    THEN TrimRight(SubSeq(s, 1, Len(s) - 1))
    ELSE s

\* String.prototype.trim
Trim(s) == TrimRight(TrimLeft(s))

AllDigits(s, from, to) == \A i \in from..to : s[i] \in Digits

\* PHONE_PATTERNS.STANDARD  /^09\d{9}$/
STANDARD(s) ==
  /\ Len(s) = 11
  /\ s[1] = "0" /\ s[2] = "9"
  /\ AllDigits(s, 3, 11)

\* PHONE_PATTERNS.INTERNATIONAL  /^\+989\d{9}$/
INTERNATIONAL(s) ==
  /\ Len(s) = 13
  /\ s[1] = "+" /\ s[2] = "9" /\ s[3] = "8" /\ s[4] = "9"
  /\ AllDigits(s, 5, 13)

\* PHONE_PATTERNS.COUNTRY_CODE  /^00989\d{9}$/
COUNTRY_CODE(s) ==
  /\ Len(s) = 14
  /\ s[1] = "0" /\ s[2] = "0" /\ s[3] = "9" /\ s[4] = "8" /\ s[5] = "9"
  /\ AllDigits(s, 6, 14)

validateIranianPhone(phone) ==
  IF phone = <<>>
    THEN FALSE
    ELSE LET cleanPhone == Trim(phone)
         IN  STANDARD(cleanPhone) \/ INTERNATIONAL(cleanPhone)
               \/ COUNTRY_CODE(cleanPhone)

\* a JavaScript value passed as the phone argument: a string with its
\* characters, or null, undefined or a number
PhoneValue(t, chars) == [t |-> t, chars |-> chars]

\* what a call returned, or that it threw
PhoneResult(threw, valid, value) == [threw |-> threw, valid |-> valid, value |-> value]

\* a validateIranianPhone without the guard of its first lines: trim is
\* called on whatever was passed
validateIranianPhoneAny_NoGuard(input) ==
  IF input.t \in {"null", "undefined", "number"}
    THEN PhoneResult(TRUE, FALSE, input)
    ELSE PhoneResult(FALSE, validateIranianPhone(input.chars), input)

\* validateIranianPhone on any value: !phone || typeof phone !== 'string'
\* returns false before the trim
validateIranianPhoneAny(input) ==
  IF input.t # "string"
    THEN PhoneResult(FALSE, FALSE, input)
    ELSE PhoneResult(FALSE, validateIranianPhone(input.chars), input)

\* a normalizeIranianPhone that cuts one character too many after '+989'
normalizeIranianPhone_ZeroToPlus(phone) ==
  LET cleanPhone == Trim(phone)
  IN  IF ~validateIranianPhone(phone) THEN phone
      ELSE IF SubSeq(cleanPhone, 1, 4) = <<"+", "9", "8", "9">>
        THEN <<"0">> \o SubSeq(cleanPhone, 4, Len(cleanPhone))
      ELSE IF SubSeq(cleanPhone, 1, 5) = <<"0", "0", "9", "8", "9">>
        THEN <<"+">> \o SubSeq(cleanPhone, 3, Len(cleanPhone))
      ELSE cleanPhone

normalizeIranianPhone_SliceFour(phone) ==
  LET cleanPhone == Trim(phone)
  IN  IF ~validateIranianPhone(phone) THEN phone
      ELSE IF SubSeq(cleanPhone, 1, 4) = <<"+", "9", "8", "9">>
        THEN <<"0">> \o SubSeq(cleanPhone, 5, Len(cleanPhone))
      ELSE IF SubSeq(cleanPhone, 1, 5) = <<"0", "0", "9", "8", "9">>
        THEN <<"0">> \o SubSeq(cleanPhone, 5, Len(cleanPhone))
      ELSE cleanPhone

\* normalizeIranianPhone on a string: '0' + cleanPhone.slice(3) after '+989',
\* '0' + cleanPhone.slice(4) after '00989'
normalizeIranianPhone(phone) ==
  LET cleanPhone == Trim(phone)
  IN  IF ~validateIranianPhone(phone) THEN phone
      ELSE IF SubSeq(cleanPhone, 1, 4) = <<"+", "9", "8", "9">>
        THEN <<"0">> \o SubSeq(cleanPhone, 4, Len(cleanPhone))
      ELSE IF SubSeq(cleanPhone, 1, 5) = <<"0", "0", "9", "8", "9">>
        THEN <<"0">> \o SubSeq(cleanPhone, 5, Len(cleanPhone))
      ELSE cleanPhone

\* normalizeIranianPhone on any value: what fails the validation is returned
\* as it was passed
normalizeIranianPhoneAny(input) ==
  IF ~validateIranianPhoneAny(input).valid
    THEN PhoneResult(FALSE, FALSE, input)
    ELSE PhoneResult(FALSE, TRUE, PhoneValue("string", normalizeIranianPhone(input.chars)))

\* no call of lib/validation.ts made yet
NoPhoneCall ==
  [op |-> "none", input |-> PhoneValue("undefined", <<>>),
   result |-> PhoneResult(FALSE, FALSE, PhoneValue("undefined", <<>>))]

\* the values the phone input takes in the model
LocalPhone == <<"0", "9", "1", "2", "3", "4", "5", "6", "7", "8", "9">>

PlusPhone == <<"+", "9", "8">> \o Tail(LocalPhone)

ZeroPhone == <<"0", "0", "9", "8">> \o Tail(LocalPhone)

PhoneInputs == { <<" ">>, LocalPhone, PlusPhone, ZeroPhone, <<"1", "2", "3">> }

\* maxLength attribute of the phone input
InputMaxLength == 13

\* ------------------------------------------------------------------------
\* JavaScript values of the user record
\* ------------------------------------------------------------------------

\* a leaf value: its type tag and its printed form
Str(v) == [t |-> "string", v |-> v]

Num(v) == [t |-> "number", v |-> v]

Null == [t |-> "null", v |-> "null"]

Undefined == [t |-> "undefined", v |-> "undefined"]

\* JavaScript truthiness of a leaf
Truthy(l) ==
  \/ l.t = "string" /\ l.v # ""
  \/ l.t = "number" /\ l.v \notin {"0", "NaN"}

IsString(l) == l.t = "string"

\* user.name: an object with first/last, or null, or undefined (absent)
NameObj(f, l) == [t |-> "object", first |-> f, last |-> l]

NoName(tag) == [t |-> tag, first |-> Undefined, last |-> Undefined]

\* user.picture: an object with the three sizes, or null, or undefined
PictureObj(l, m, s) == [t |-> "object", large |-> l, medium |-> m, thumbnail |-> s]

NoPicture(tag) ==
  [t |-> tag, large |-> Undefined, medium |-> Undefined, thumbnail |-> Undefined]

\* interface User
UserObj(n, e, p) == [t |-> "object", name |-> n, email |-> e, picture |-> p]

NoUser(tag) ==
  [t |-> tag, name |-> NoName("undefined"), email |-> Undefined,
   picture |-> NoPicture("undefined")]

NullUser == NoUser("null")

\* the User type: all six leaf fields present and strings
UserRecordInvariant(u) ==
  /\ u.t = "object"
  /\ u.name.t = "object"
  /\ IsString(u.name.first) /\ IsString(u.name.last)
  /\ IsString(u.email)
  /\ u.picture.t = "object"
  /\ IsString(u.picture.large) /\ IsString(u.picture.medium)
  /\ IsString(u.picture.thumbnail)

\* ------------------------------------------------------------------------
\* JSON.stringify / JSON.parse and the localStorage item
\* ------------------------------------------------------------------------

\* a property whose value is undefined is omitted (and reads back as
\* undefined); NaN is written as null
JsonLeaf(l) == IF l.t = "number" /\ l.v = "NaN" THEN Null ELSE l

JsonName(n) ==
  IF n.t = "object" THEN NameObj(JsonLeaf(n.first), JsonLeaf(n.last)) ELSE n

JsonPicture(p) ==
  IF p.t = "object"
    THEN PictureObj(JsonLeaf(p.large), JsonLeaf(p.medium), JsonLeaf(p.thumbnail))
    ELSE p

\* the text JSON.stringify produces, kept as the value it denotes
JSONstringify(u) ==
  [kind |-> "json",
   val  |-> IF u.t = "object"
              THEN UserObj(JsonName(u.name), JsonLeaf(u.email), JsonPicture(u.picture))
              ELSE u]

\* no item under the key (getItem returns null)
Absent == [kind |-> "absent", val |-> NullUser]

\* an item whose text is not JSON
Garbage == [kind |-> "garbage", val |-> NullUser]

\* an item whose text is the empty string
EmptyItem == [kind |-> "empty", val |-> NullUser]

\* JSON.parse: the value, or a SyntaxError
JSONparse(item) ==
  IF item.kind = "json"
    THEN [threw |-> FALSE, val |-> item.val]
    ELSE [threw |-> TRUE, val |-> NullUser]

GoodStorage ==
  [available |-> TRUE, setItem |-> "ok", getItem |-> "ok", removeItem |-> "ok",
   nodeEnv |-> "production"]

\* the behaviours of a storage that differ from those of a working one
StorageFaults(env) ==
  { f \in {"available", "setItem", "getItem", "removeItem"} : env[f] # GoodStorage[f] }

\* the browser's storage as each call finds it: whether localStorage exists,
\* what setItem, getItem and removeItem do, and the build's NODE_ENV; one
\* behaviour fails at a time, or reading and removing both throw
StorageEnvs ==
  { env \in [available : BOOLEAN, setItem : {"ok", "quota", "dropped"},
             getItem : {"ok", "throws"},
             removeItem : {"ok", "throws", "dropped"},
             nodeEnv : {"production", "test"}] :
      \/ Cardinality(StorageFaults(env)) <= 1
      \/ StorageFaults(env) = {"getItem", "removeItem"} }

\* ------------------------------------------------------------------------
\* lib/auth.ts
\* ------------------------------------------------------------------------

\* String.prototype.includes on the messages that occur, as a table:
\* the messages that contain the substring
Includes(message, sub) ==
  message \in
    CASE sub = "not available" ->
           {"localStorage is not available in this browser",
            "Browser storage is not available. Please enable localStorage and try again."}
      [] sub = "Storage quota exceeded" ->
           {"Storage quota exceeded. Please clear some browser data and try again."}
      [] sub = "Failed to fetch" -> {"Failed to fetch"}
      [] sub = "Network error" -> {}
      [] sub = "timeout" -> {}
      [] sub = "access denied" -> {}
      [] OTHER -> {}

MsgNotAvailableRaw == "localStorage is not available in this browser"

MsgNotAvailable ==
  "Browser storage is not available. Please enable localStorage and try again."

MsgInvalidUser == "Invalid user data: missing required fields"

MsgQuotaRaw == "The quota has been exceeded."

MsgQuota == "Storage quota exceeded. Please clear some browser data and try again."

MsgVerify == "Failed to verify stored user data"

\* the message of the error a failing getItem or removeItem throws
MsgAccessDenied == "Access denied"

\* the outcome of a call on the store: the error thrown if any, the store
\* after the call, and whether the call changed the item (setItem/removeItem)
Returned(store, wrote) ==
  [threw |-> FALSE, name |-> "", message |-> "", store |-> store, wrote |-> wrote]

Threw(name, msg, store, wrote) ==
  [threw |-> TRUE, name |-> name, message |-> msg, store |-> store, wrote |-> wrote]

\* the validation of the user before storing (auth.ts line 17)
saveAccepts(user) ==
  /\ user.t = "object"
  /\ user.name.t = "object"
  /\ Truthy(user.email)
  /\ user.picture.t = "object"

\* a try block that writes the item before it checks the user
saveTry_WritesFirst(user, store, env) ==
  IF ~env.available
    THEN Threw("Error", MsgNotAvailableRaw, store, FALSE)
  ELSE IF ~saveAccepts(user)
    THEN Threw("Error", MsgInvalidUser, JSONstringify(user), TRUE)
  ELSE IF env.setItem = "quota"
    THEN Threw("QuotaExceededError", MsgQuotaRaw, store, FALSE)
  ELSE Returned(IF env.setItem = "ok" THEN JSONstringify(user) ELSE store,
                env.setItem = "ok")

\* a try block that does not read the item back after writing it
saveTry_NoVerify(user, store, env) ==
  IF ~env.available
    THEN Threw("Error", MsgNotAvailableRaw, store, FALSE)
  ELSE IF ~saveAccepts(user)
    THEN Threw("Error", MsgInvalidUser, store, FALSE)
  ELSE IF env.setItem = "quota"
    THEN Threw("QuotaExceededError", MsgQuotaRaw, store, FALSE)
  ELSE Returned(IF env.setItem = "ok" THEN JSONstringify(user) ELSE store,
                env.setItem = "ok")

\* the try block of saveUserToStorage: the error it throws, the store after
saveTry(user, store, env) ==
  IF ~env.available
    THEN Threw("Error", MsgNotAvailableRaw, store, FALSE)
  ELSE IF ~saveAccepts(user)
    THEN Threw("Error", MsgInvalidUser, store, FALSE)
  ELSE LET userData == JSONstringify(user)
           written  == IF env.setItem = "ok" THEN userData ELSE store
           wrote    == env.setItem = "ok"
       IN  IF env.setItem = "quota"
             THEN Threw("QuotaExceededError", MsgQuotaRaw, store, FALSE)
           ELSE IF env.nodeEnv # "test" /\ env.getItem = "throws"
             THEN Threw("Error", MsgAccessDenied, written, wrote)
           ELSE IF env.nodeEnv # "test" /\ (written.kind = "absent" \/ written # userData)
             THEN Threw("Error", MsgVerify, written, wrote)
           ELSE Returned(written, wrote)

\* a saveUserToStorage whose catch block rethrows the error as it caught it
saveUserToStorage_Rethrow(user, store, env) == saveTry(user, store, env)

\* saveUserToStorage(user) on the store, under the storage behaviour env:
\* whether it threw, the message rethrown by its catch block, the store after
saveUserToStorage(user, store, env) ==
  LET r == saveTry(user, store, env)
  IN  IF ~r.threw THEN r
      ELSE IF \/ Includes(r.message, "QuotaExceededError")
              \/ r.name = "QuotaExceededError"
              \/ Includes(r.message, "Storage quota exceeded")
        THEN Threw("Error", MsgQuota, r.store, r.wrote)
      ELSE IF Includes(r.message, "not available")
        THEN Threw("Error", MsgNotAvailable, r.store, r.wrote)
      ELSE r

\* a structure check that leaves out the type of email
loadAccepts_NoEmailCheck(user) ==
  /\ user.t = "object"
  /\ user.name.t = "object"
  /\ user.name.first.t = "string"
  /\ user.name.last.t = "string"
  /\ user.picture.t = "object"
  /\ user.picture.large.t = "string"
  /\ user.picture.medium.t = "string"
  /\ user.picture.thumbnail.t = "string"

\* the structure check of the stored value (auth.ts lines 71-79)
loadAccepts(user) ==
  /\ user.t = "object"
  /\ user.name.t = "object"
  /\ user.name.first.t = "string"
  /\ user.name.last.t = "string"
  /\ user.email.t = "string"
  /\ user.picture.t = "object"
  /\ user.picture.large.t = "string"
  /\ user.picture.medium.t = "string"
  /\ user.picture.thumbnail.t = "string"

\* the outcome of getUserFromStorage or of its try block: whether an error
\* left it, the user returned (NullUser for null) and the store after
Loaded(user, store) == [threw |-> FALSE, user |-> user, store |-> store]

LoadThrew(store) == [threw |-> TRUE, user |-> NullUser, store |-> store]

\* a try block that removes the item once it has read a valid record
loadTry_RemovesRead(store, env) ==
  IF ~env.available
    THEN Loaded(NullUser, store)
  ELSE IF env.getItem = "throws"
    THEN LoadThrew(store)
  ELSE IF store.kind \in {"absent", "empty"}
    THEN Loaded(NullUser, store)
  ELSE LET parsed == JSONparse(store)
       IN  IF parsed.threw
             THEN LoadThrew(store)
           ELSE IF loadAccepts(parsed.val)
             THEN Loaded(parsed.val, Absent)
           ELSE IF env.removeItem = "throws"
             THEN LoadThrew(store)
           ELSE Loaded(NullUser, IF env.removeItem = "ok" THEN Absent ELSE store)

\* the try block of getUserFromStorage (auth.ts lines 56-86)
loadTry(store, env) ==
  IF ~env.available
    THEN Loaded(NullUser, store)
  ELSE IF env.getItem = "throws"
    THEN LoadThrew(store)
  ELSE IF store.kind \in {"absent", "empty"}
    THEN Loaded(NullUser, store)
  ELSE LET parsed == JSONparse(store)
       IN  IF parsed.threw
             THEN LoadThrew(store)
           ELSE IF loadAccepts(parsed.val)
             THEN Loaded(parsed.val, store)
           ELSE IF env.removeItem = "throws"
             THEN LoadThrew(store)
           ELSE Loaded(NullUser, IF env.removeItem = "ok" THEN Absent ELSE store)

\* a catch block whose clean-up removal is not guarded by a try of its own
loadCatch_Unguarded(store, env) ==
  IF env.removeItem = "throws" \/ ~env.available
    THEN LoadThrew(store)
    ELSE Loaded(NullUser, Absent)

\* the catch block of getUserFromStorage (auth.ts lines 87-98): the removal
\* of the item, whose own failure is caught and logged
loadCatch(store, env) ==
  IF env.removeItem # "ok" \/ ~env.available
    THEN Loaded(NullUser, store)
    ELSE Loaded(NullUser, Absent)

\* getUserFromStorage() on the store, under the storage behaviour env
getUserFromStorage(store, env) ==
  LET r == loadTry(store, env)
  IN  IF r.threw THEN loadCatch(r.store, env) ELSE r

isAuthenticated(store, env) == getUserFromStorage(store, env).user # NullUser

MsgAccessBlocked ==
  "Unable to access browser storage. Please check your browser settings."

\* a getAuthState that takes the presence of the item for authentication
getAuthState_KeyPresent(store, env) ==
  LET loaded == getUserFromStorage(store, env)
  IN  [isAuthenticated |-> store.kind # "absent", user |-> loaded.user,
       store |-> loaded.store]

\* getAuthState(): one getUserFromStorage(), isAuthenticated: user !== null
getAuthState(store, env) ==
  LET loaded == getUserFromStorage(store, env)
  IN  [isAuthenticated |-> loaded.user # NullUser, user |-> loaded.user,
       store |-> loaded.store]

MsgClearFailed == "Failed to clear user data from storage"

\* a try block that does not look for the item after removing it
clearTry_NoVerify(store, env) ==
  IF ~env.available
    THEN Threw("Error", MsgNotAvailableRaw, store, FALSE)
  ELSE IF env.removeItem = "throws"
    THEN Threw("Error", MsgAccessDenied, store, FALSE)
  ELSE Returned(IF env.removeItem = "ok" THEN Absent ELSE store,
                env.removeItem = "ok")

\* the try block of clearUserFromStorage (auth.ts lines 106-120)
clearTry(store, env) ==
  IF ~env.available
    THEN Threw("Error", MsgNotAvailableRaw, store, FALSE)
  ELSE IF env.removeItem = "throws"
    THEN Threw("Error", MsgAccessDenied, store, FALSE)
  ELSE LET removed == IF env.removeItem = "ok" THEN Absent ELSE store
           wrote   == env.removeItem = "ok"
       IN  IF env.nodeEnv # "test" /\ env.getItem = "throws"
             THEN Threw("Error", MsgAccessDenied, removed, wrote)
           ELSE IF env.nodeEnv # "test" /\ removed.kind # "absent"
             THEN Threw("Error", MsgClearFailed, removed, wrote)
           ELSE Returned(removed, wrote)

\* clearUserFromStorage() on the store: its catch block rethrows the error,
\* with another message when the message contains 'access denied'
clearUserFromStorage(store, env) ==
  LET r == clearTry(store, env)
  IN  IF r.threw /\ Includes(r.message, "access denied")
        THEN Threw("Error", MsgAccessBlocked, r.store, r.wrote)
        ELSE r

\* ------------------------------------------------------------------------
\* lib/api.ts
\* ------------------------------------------------------------------------

\* ERROR_MESSAGES.NETWORK.TIMEOUT
MsgTimeout == "Request timed out. Please check your internet connection and try again."

\* ERROR_MESSAGES.NETWORK.CONNECTION_ERROR
MsgConnection ==
  "Unable to connect to the server. Please check your internet connection and try again."

MsgUnexpected == "An unexpected error occurred"

MsgNoUserData == "Invalid API response: no user data found"

MsgStatus(status) == "API request failed with status " \o ToString(status)

\* the records the remote endpoint may put first in its result list
John == Str("John")

Doe == Str("Doe")

Mail == Str("john@example.com")

RawPicture == PictureObj(Str("l.jpg"), Str("m.jpg"), Str("t.jpg"))

JohnDoe == UserObj(NameObj(John, Doe), Mail, RawPicture)

ApiUsers ==
  { JohnDoe,
    UserObj(NameObj(Str("Jane"), Str("Roe")), Str("jane@example.com"),
            PictureObj(Null, Undefined, Num("5"))),
    UserObj(NameObj(Undefined, Doe), Mail, RawPicture),
    UserObj(NameObj(John, Doe), Num("5"), RawPicture),
    UserObj(NameObj(John, Doe), Str(""), RawPicture),
    UserObj(NoName("null"), Mail, RawPicture),
    UserObj(NameObj(John, Doe), Mail, NoPicture("undefined")),
    NullUser }

\* no call of the endpoint has been answered
NoResponse ==
  [net |-> "none", status |-> 0, body |-> "none", results |-> "none",
   user |-> NullUser, avatarOk |-> FALSE]

\* what the network and the endpoint do for one call:
\*   net      "ok", "failed" (TypeError: Failed to fetch), "abort" (the
\*            timeout aborted the request), "other" (any other rejection)
\*   status   the HTTP status of the response
\*   body     "json" or "unparseable"
\*   results  "list" (non-empty array), "empty", "missing"
\*   user     results[0]
\*   avatarOk the answer of the avatar probe
Response(net, status, body, results, user, avatarOk) ==
  [net |-> net, status |-> status, body |-> body, results |-> results,
   user |-> user, avatarOk |-> avatarOk]

Responses ==
  { Response(n, 200, "json", "list", NullUser, TRUE) : n \in {"failed", "abort", "other"} }
  \cup { Response("ok", c, "json", "list", NullUser, TRUE) : c \in {404, 500} }
  \cup { Response("ok", 200, "unparseable", "list", NullUser, TRUE) }
  \cup { Response("ok", 200, "json", r, NullUser, TRUE) : r \in {"empty", "missing"} }
  \cup { Response("ok", 200, "json", "list", u, TRUE) : u \in ApiUsers }
  \cup { Response("ok", 200, "json", "list", JohnDoe, FALSE) }

\* the seed of the avatar URL: `${firstName} ${lastName}`
fullName(firstName, lastName) == firstName.v \o " " \o lastName.v

generateHijabAvatars(firstName, lastName) ==
  LET baseUrl == "avataaars/png?seed=" \o fullName(firstName, lastName)
  IN  PictureObj(Str(baseUrl \o "&size=256"), Str(baseUrl \o "&size=128"),
                 Str(baseUrl \o "&size=64"))

generateAlternativeHijabAvatars(firstName, lastName) ==
  LET baseUrl == "adventurer/png?seed=" \o fullName(firstName, lastName)
  IN  PictureObj(Str(baseUrl \o "&size=256"), Str(baseUrl \o "&size=128"),
                 Str(baseUrl \o "&size=64"))

Resolved(user) ==
  [ok |-> TRUE, user |-> user, isApiError |-> FALSE, message |-> "", status |-> 0]

\* new ApiError(message, status); status 0 stands for an undefined status
ApiError(message, status) ==
  [ok |-> FALSE, user |-> NullUser, isApiError |-> TRUE, message |-> message,
   status |-> status]

\* the validation of results[0] (api.ts line 129)
fetchAccepts(user) ==
  /\ user.name.t = "object"
  /\ Truthy(user.email)
  /\ user.picture.t = "object"

\* fetchRandomUser() when the network and the endpoint behave as resp
fetchRandomUser(resp) ==
  IF resp.net = "abort" THEN ApiError(MsgTimeout, 0)
  ELSE IF resp.net = "failed" THEN ApiError(MsgConnection, 0)
  ELSE IF resp.net # "ok" THEN ApiError(MsgUnexpected, 0)
  ELSE IF resp.status \notin 200..299 THEN ApiError(MsgStatus(resp.status), resp.status)
  ELSE IF resp.body # "json" THEN ApiError(MsgUnexpected, 0)
  ELSE IF resp.results # "list" THEN ApiError(MsgNoUserData, 0)
  ELSE IF resp.user.t # "object" THEN ApiError(MsgUnexpected, 0)
  ELSE IF ~fetchAccepts(resp.user) THEN ApiError(MsgInvalidUser, 0)
  ELSE LET user == resp.user
           hijabAvatars ==
             IF resp.avatarOk
               THEN generateHijabAvatars(user.name.first, user.name.last)
               ELSE generateAlternativeHijabAvatars(user.name.first, user.name.last)
       IN  Resolved(UserObj(user.name, user.email, hijabAvatars))

\* no call of fetchRandomUser() has been followed
NoFetchCall ==
  [phase |-> "idle", elapsed |-> 0, timer |-> "none", aborted |-> FALSE,
   lateAbort |-> FALSE, probeTimer |-> "none", probeStart |-> 0,
   requests |-> 0, probes |-> 0, resp |-> NoResponse,
   result |-> ApiError("", 0)]

\* ------------------------------------------------------------------------
\* components/login-form.tsx and the login page
\* ------------------------------------------------------------------------

VARIABLES
  phoneNumber,    \* useState('')       the phone input
  error,          \* useState(null)     the ErrorState presented, or NoError
  isLoading,      \* useState(false)
  isRedirecting,  \* useState(false)
  retryCount,     \* useState(0)
  pending,        \* the handleSubmit calls suspended at `await fetchRandomUser()`,
                  \* each with the retryCount its closure captured
  storage,        \* the localStorage item under STORAGE_KEYS.USER_DATA
  page,           \* the view shown: "login", "dashboard", "authError"
  run,            \* observation: the latest run of handleSubmit and its steps
  lineageFails,   \* observation: consecutive failed runs since the last submit
  fetchFails,     \* observation: consecutive fetch failures since the last submit
  lastEvent,      \* observation: the handler that ran last
  call,           \* observation: the latest direct call of a lib/auth.ts function
  loginPage,      \* LoginPage: isCheckingAuth, authCheckError
  dashboard,      \* DashboardPage: user, loadingState, error, retryCount
  header,         \* DashboardHeader: isLoggingOut, logoutError
  guard,          \* observation: what the page shown has loaded and invoked
  phoneCall,      \* observation: the latest direct call of a lib/validation.ts
                  \* function
  fetchCall       \* a call of fetchRandomUser() followed step by step: its
                  \* position, its timers and the time elapsed since it started

vars ==
  <<phoneNumber, error, isLoading, isRedirecting, retryCount, pending, storage,
    page, run, lineageFails, fetchFails, lastEvent, call, loginPage, dashboard,
    header, guard, phoneCall, fetchCall>>

pageVars == <<loginPage, dashboard, header, guard>>

\* LoginPage when it mounts: useState(true), useState(null)
LoginPageMounted == [isCheckingAuth |-> TRUE, authCheckError |-> FALSE]

\* DashboardPage when it mounts: useState(null), 'checking', null, 0
DashboardMounted ==
  [user |-> NullUser, loadingState |-> "checking", error |-> "none", retryCount |-> 0]

\* DashboardHeader when it mounts: useState(false), useState(null)
HeaderMounted == [isLoggingOut |-> FALSE, logoutError |-> FALSE]

\* the observation of the page shown: how it was entered, the handler that
\* ran last, whether its check has loaded the store, how many times and with
\* what result, whether the read of the item threw in that load, the
\* navigation invoked that threw (since it mounted or since its latest logout
\* started), and how the clearUserFromStorage() of that logout ended
Entered(arrived) ==
  [arrived |-> arrived, event |-> "mount", checked |-> FALSE, loads |-> 0,
   loaded |-> NullUser, readFailed |-> FALSE, nav |-> "none", by |-> "none",
   cleared |-> "none"]

\* error === null
NoError == [message |-> "", type |-> "none", retryable |-> FALSE]

\* setErrorState(message, type, retryable = false)
ErrorState(message, type, retryable) ==
  [message |-> message, type |-> type, retryable |-> retryable]

MsgRequired == "Mobile number is required. Please enter your Iranian mobile number."

MsgInvalidPhone ==
  "Please enter a valid Iranian mobile number. Accepted formats: 09xxxxxxxxx, +989xxxxxxxxx, or 00989xxxxxxxxx"

MsgSaveFailed ==
  "Unable to save login information. Please check your browser settings and try again."

MsgRedirectFailed == "Login successful but unable to redirect. Please refresh the page."

MsgServer == "Server is temporarily unavailable. Please try again in a few moments."

MsgBadRequest == "There was a problem with your request. Please try again."

MsgGeneral ==
  "An unexpected error occurred. Please try again or contact support if the problem persists."

\* validateForm without its format check
validateForm_RequiredOnly(phone) ==
  IF Trim(phone) = <<>>
    THEN ErrorState(MsgRequired, "validation", FALSE)
    ELSE NoError

\* validateForm(): the error it sets, NoError when the form is valid
validateForm(phone) ==
  IF Trim(phone) = <<>>
    THEN ErrorState(MsgRequired, "validation", FALSE)
  ELSE IF ~validateIranianPhone(phone)
    THEN ErrorState(MsgInvalidPhone, "validation", FALSE)
  ELSE NoError

\* a catch block whose last api branch leaves the retryable argument to its
\* default
catchError_DefaultFlag(err) ==
  IF err.isApiError
    THEN IF Includes(err.message, "timeout")
           THEN ErrorState(MsgTimeout, "network", TRUE)
         ELSE IF Includes(err.message, "Network error")
           THEN ErrorState(MsgConnection, "network", TRUE)
         ELSE IF err.status # 0 /\ err.status >= 500
           THEN ErrorState(MsgServer, "api", TRUE)
         ELSE IF err.status # 0 /\ err.status >= 400
           THEN ErrorState(MsgBadRequest, "api", TRUE)
         ELSE ErrorState(err.message, "api", FALSE)
    ELSE ErrorState(MsgGeneral, "general", TRUE)

\* the catch block of handleSubmit: the error presented for a rejected fetch
catchError(err) ==
  IF err.isApiError
    THEN IF Includes(err.message, "timeout")
           THEN ErrorState(MsgTimeout, "network", TRUE)
         ELSE IF Includes(err.message, "Network error")
           THEN ErrorState(MsgConnection, "network", TRUE)
         ELSE IF err.status # 0 /\ err.status >= 500
           THEN ErrorState(MsgServer, "api", TRUE)
         ELSE IF err.status # 0 /\ err.status >= 400
           THEN ErrorState(MsgBadRequest, "api", TRUE)
         ELSE ErrorState(err.message, "api", TRUE)
    ELSE ErrorState(MsgGeneral, "general", TRUE)

\* controls that stay enabled while a run is loading
Disabled_RedirectingOnly == isRedirecting

\* the controls are disabled while a run is loading or redirecting
Disabled == isLoading \/ isRedirecting

\* a Try Again button that is still rendered at the limit
RetryOffered_AtLimit == error.retryable /\ retryCount <= 3

\* the Try Again button is rendered (line 299)
RetryOffered == error.retryable /\ retryCount < 3

\* the Refresh Page button is rendered (line 313)
ResetOffered == retryCount >= 3 /\ error.retryable

\* the observation of a run: who started it, the retryCount shown when it
\* started, its steps in order, the record its fetch returned, and the
\* argument, the message and the write of its saveUserToStorage call
StartRun(kind, count, log) ==
  [kind |-> kind, startCount |-> count, log |-> log, fetched |-> NullUser,
   saved |-> NullUser, saveMessage |-> "", saveWrote |-> FALSE,
   from |-> error.type, resp |-> NoResponse]

NoRun ==
  [kind |-> "none", startCount |-> 0, log |-> <<>>, fetched |-> NullUser,
   saved |-> NullUser, saveMessage |-> "", saveWrote |-> FALSE,
   from |-> "none", resp |-> NoResponse]

\* the observation of a direct call: the function, its argument, the item and
\* the storage behaviour it found, and what it threw or returned
Call(op, arg, before, env, threw, message, user, authenticated) ==
  [op |-> op, arg |-> arg, before |-> before, env |-> env, threw |-> threw,
   message |-> message, user |-> user, isAuthenticated |-> authenticated]

NoCall == Call("none", NullUser, Absent, GoodStorage, FALSE, "", NullUser, FALSE)

Init ==
  /\ phoneNumber = <<>>
  /\ error = NoError
  /\ isLoading = FALSE
  /\ isRedirecting = FALSE
  /\ retryCount = 0
  /\ pending = <<>>
  /\ storage = Absent
  /\ page = "login"
  /\ run = NoRun
  /\ lineageFails = 0
  /\ fetchFails = 0
  /\ lastEvent = "mount"
  /\ call = NoCall
  /\ loginPage = LoginPageMounted
  /\ dashboard = DashboardMounted
  /\ header = HeaderMounted
  /\ guard = Entered("visit")
  /\ phoneCall = NoPhoneCall
  /\ fetchCall = NoFetchCall

\* the route is shown: its page mounts and its effect starts the check
MountPage(route, arrived) ==
  /\ page' = route
  /\ loginPage' = LoginPageMounted
  /\ dashboard' = DashboardMounted
  /\ header' = HeaderMounted
  /\ guard' = Entered(arrived)

\* the state of the form left is gone, a form shown starts from its initial
\* state (the useState values of LoginForm)
MountForm ==
  /\ phoneNumber' = <<>>
  /\ error' = NoError
  /\ isLoading' = FALSE
  /\ isRedirecting' = FALSE
  /\ retryCount' = 0
  /\ pending' = <<>>
  /\ run' = NoRun
  /\ lineageFails' = 0
  /\ fetchFails' = 0
  /\ lastEvent' = "mount"

\* a navigation from a page other than the form, or a page load
Mount(route, arrived) == MountPage(route, arrived) /\ MountForm

\* handleSubmit up to its await: clearError, validateForm, setIsLoading and
\* the call of fetchRandomUser; kind tells a form submission from a retry
handleSubmit(kind) ==
  LET invalid == validateForm(phoneNumber)
  IN  /\ retryCount' = 0
      /\ IF invalid # NoError
           THEN /\ error' = invalid
                /\ UNCHANGED <<isLoading, pending>>
                /\ run' = StartRun(kind, retryCount, <<"validate:fail">>)
           ELSE /\ error' = NoError
                /\ isLoading' = TRUE
                /\ pending' = Append(pending, [retryCount |-> retryCount])
                /\ run' = StartRun(kind, retryCount, <<"validate:ok", "fetch:start">>)
      /\ lastEvent' = kind
      /\ UNCHANGED <<phoneNumber, isRedirecting, storage, page, call>>
      /\ UNCHANGED <<pageVars, phoneCall, fetchCall>>

\* the Login button (type="submit") of the form
Submit ==
  /\ page = "login"
  /\ ~Disabled
  /\ retryCount < MaxCount
  /\ lineageFails' = 0
  /\ fetchFails' = 0
  /\ handleSubmit("submit")

\* handleRetry, the onClick of the Try Again button
Retry ==
  /\ page = "login"
  /\ RetryOffered
  /\ ~Disabled
  /\ retryCount < MaxCount
  /\ lineageFails < MaxLineage
  /\ error.retryable
  /\ UNCHANGED <<lineageFails, fetchFails>>
  /\ handleSubmit("retry")

\* a handlePhoneChange that clears the error and keeps the counter
countAfterChange_Keeps(err, count) == count

\* retryCount after handlePhoneChange: clearError() when an error is shown
countAfterChange(err, count) == IF err # NoError THEN 0 ELSE count

\* handlePhoneChange, the onChange of the phone input
Edit(value) ==
  /\ page = "login"
  /\ ~Disabled
  /\ Len(value) <= InputMaxLength
  /\ value # phoneNumber
  /\ phoneNumber' = value
  /\ error' = NoError
  /\ retryCount' = countAfterChange(error, retryCount)
  /\ lastEvent' = "edit"
  /\ UNCHANGED <<isLoading, isRedirecting, pending, storage, page, run,
                 lineageFails, fetchFails, call>>
  /\ UNCHANGED <<pageVars, phoneCall, fetchCall>>

\* a handleSubmit without the inner try around the save: its error reaches
\* the outer catch block
runOutcome_SaveErrorInCatch(result, saved, pushOk) ==
  IF ~result.ok \/ saved.threw THEN "fetch:fail"
  ELSE IF ~pushOk THEN "push:fail"
  ELSE "push:ok"

\* a handleSubmit that goes on to the redirect after a failed save
runOutcome_IgnoreSaveError(result, saved, pushOk) ==
  IF ~result.ok THEN "fetch:fail"
  ELSE IF ~pushOk THEN "push:fail"
  ELSE "push:ok"

\* the path handleSubmit takes once the awaited fetch has settled: the catch
\* block, the return after a failed save, the catch of a failed push, or the
\* end of the try block
runOutcome(result, saved, pushOk) ==
  IF ~result.ok THEN "fetch:fail"
  ELSE IF saved.threw THEN "save:fail"
  ELSE IF ~pushOk THEN "push:fail"
  ELSE "push:ok"

\* a handleSubmit whose catch of a failed push leaves isRedirecting set
redirectingAfter_StaysOn(outcome, was) ==
  IF outcome \in {"push:ok", "push:fail"} THEN TRUE ELSE was

\* isRedirecting when handleSubmit ends: setIsRedirecting(true) before the
\* push, setIsRedirecting(false) in the catch of a failed push
redirectingAfter(outcome, was) ==
  CASE outcome = "push:ok" -> TRUE
    [] outcome = "push:fail" -> FALSE
    [] OTHER -> was

\* a handleSubmit that clears the flag at the end of its try block instead of
\* in a finally block
loadingAfter_TryOnly(outcome) == outcome \notin {"push:ok", "push:fail"}

\* isLoading when handleSubmit ends: setIsLoading(false) in the finally block
loadingAfter(outcome) == FALSE

\* handleSubmit from the point where the awaited fetchRandomUser of the i-th
\* suspended call settles: save, redirect, or the catch block; then finally
Settle(i, resp, env, pushOk) ==
  LET closure == pending[i]
      result  == fetchRandomUser(resp)
      saved   == saveUserToStorage(result.user, storage, env)
      outcome == runOutcome(result, saved, pushOk)
      failed  == outcome # "push:ok"
      steps   == <<IF result.ok THEN "fetch:ok" ELSE "fetch:fail">>
                 \o (IF result.ok
                       THEN <<IF saved.threw THEN "save:fail" ELSE "save:ok">>
                       ELSE <<>>)
                 \o (IF outcome \in {"push:ok", "push:fail"} THEN <<outcome>> ELSE <<>>)
  IN  /\ page = "login"
      /\ pending' = SubSeq(pending, 1, i - 1) \o SubSeq(pending, i + 1, Len(pending))
      /\ isLoading' = loadingAfter(outcome)
      /\ lastEvent' = "settled"
      /\ UNCHANGED <<phoneNumber, call>>
      /\ UNCHANGED <<phoneCall, fetchCall>>
      /\ retryCount' = IF outcome = "fetch:fail" THEN closure.retryCount + 1 ELSE retryCount
      /\ error' = CASE outcome = "fetch:fail" -> catchError(result)
                    [] outcome = "save:fail" -> ErrorState(MsgSaveFailed, "storage", TRUE)
                    [] outcome = "push:fail" -> ErrorState(MsgRedirectFailed, "redirect", TRUE)
                    [] OTHER -> error
      /\ isRedirecting' = redirectingAfter(outcome, isRedirecting)
      /\ storage' = IF result.ok THEN saved.store ELSE storage
      /\ IF outcome = "push:ok"
           THEN MountPage("dashboard", "login")
           ELSE UNCHANGED <<page, pageVars>>
      /\ run' = [run EXCEPT !.log = @ \o steps,
                            !.resp = resp,
                            !.fetched = result.user,
                            !.saved = IF result.ok THEN result.user ELSE NullUser,
                            !.saveMessage = IF result.ok THEN saved.message ELSE "",
                            !.saveWrote = result.ok /\ saved.wrote]
      /\ lineageFails' = IF failed THEN lineageFails + 1 ELSE lineageFails
      /\ fetchFails' = IF outcome = "fetch:fail" THEN fetchFails + 1 ELSE 0

\* the awaited fetchRandomUser of a suspended handleSubmit settles
FetchSettled(resp, env, pushOk) ==
  \E i \in DOMAIN pending : Settle(i, resp, env, pushOk)

\* the Refresh Page button: window.location.reload() remounts the login page,
\* whose effect checks isAuthenticated() and may redirect to the dashboard
Reload(env, pushOk) ==
  LET loaded == getUserFromStorage(storage, env)
  IN  /\ page = "login"
      /\ ResetOffered
      /\ phoneNumber' = <<>>
      /\ error' = NoError
      /\ isLoading' = FALSE
      /\ isRedirecting' = FALSE
      /\ retryCount' = 0
      /\ pending' = <<>>
      /\ storage' = loaded.store
      /\ IF loaded.user # NullUser /\ pushOk
           THEN MountPage("dashboard", "loginPage")
           ELSE /\ page' = IF loaded.user = NullUser THEN "login" ELSE "authError"
                /\ UNCHANGED pageVars
      /\ run' = NoRun
      /\ lineageFails' = 0
      /\ fetchFails' = 0
      /\ lastEvent' = "reload"
      /\ UNCHANGED call
      /\ UNCHANGED <<phoneCall, fetchCall>>

Next ==
  \/ Submit
  \/ Retry
  \/ \E value \in PhoneInputs : Edit(value)
  \/ \E resp \in Responses, env \in StorageEnvs, pushOk \in BOOLEAN :
        FetchSettled(resp, env, pushOk)
  \/ \E env \in StorageEnvs, pushOk \in BOOLEAN : Reload(env, pushOk)

Spec == Init /\ [][Next]_vars

\* ------------------------------------------------------------------------
\* lib/auth.ts called directly, on any content of the storage key
\* ------------------------------------------------------------------------

\* the records a caller may pass to saveUserToStorage or that may be found
\* stored: those the endpoint may send, and one whose strings are all empty
StoreUsers ==
  ApiUsers \cup
    { UserObj(NameObj(Str(""), Str("")), Mail, PictureObj(Str(""), Str(""), Str(""))) }

\* the contents the key may have: nothing, the empty string, text that is not
\* JSON, the JSON text of a record, the JSON text "null"
StoreContents ==
  {Absent, EmptyItem, Garbage} \cup { JSONstringify(u) : u \in StoreUsers }

formVars ==
  <<phoneNumber, error, isLoading, isRedirecting, retryCount, pending, page,
    run, lineageFails, fetchFails, lastEvent>>

StoreInit ==
  /\ phoneNumber = <<>>
  /\ error = NoError
  /\ isLoading = FALSE
  /\ isRedirecting = FALSE
  /\ retryCount = 0
  /\ pending = <<>>
  /\ page = "login"
  /\ run = NoRun
  /\ lineageFails = 0
  /\ fetchFails = 0
  /\ lastEvent = "mount"
  /\ storage \in StoreContents
  /\ call = NoCall
  /\ loginPage = LoginPageMounted
  /\ dashboard = DashboardMounted
  /\ header = HeaderMounted
  /\ guard = Entered("visit")
  /\ phoneCall = NoPhoneCall
  /\ fetchCall = NoFetchCall

\* a call of saveUserToStorage(user)
CallSave(user, env) ==
  LET r == saveUserToStorage(user, storage, env)
  IN  /\ storage' = r.store
      /\ call' = Call("save", user, storage, env, r.threw, r.message, NullUser, FALSE)
      /\ UNCHANGED formVars
      /\ UNCHANGED <<pageVars, phoneCall, fetchCall>>

\* a call of getUserFromStorage()
CallLoad(env) ==
  LET r == getUserFromStorage(storage, env)
  IN  /\ storage' = r.store
      /\ call' = Call("load", NullUser, storage, env, r.threw, "", r.user, FALSE)
      /\ UNCHANGED formVars
      /\ UNCHANGED <<pageVars, phoneCall, fetchCall>>

\* a call of clearUserFromStorage()
CallClear(env) ==
  LET r == clearUserFromStorage(storage, env)
  IN  /\ storage' = r.store
      /\ call' = Call("clear", NullUser, storage, env, r.threw, r.message, NullUser,
                      FALSE)
      /\ UNCHANGED formVars
      /\ UNCHANGED <<pageVars, phoneCall, fetchCall>>

\* a call of getAuthState()
CallGetAuthState(env) ==
  LET r == getAuthState(storage, env)
  IN  /\ storage' = r.store
      /\ call' = Call("getAuthState", NullUser, storage, env, FALSE, "", r.user,
                      r.isAuthenticated)
      /\ UNCHANGED formVars
      /\ UNCHANGED <<pageVars, phoneCall, fetchCall>>

\* the item is changed from outside the program (another tab, the user)
Tamper(content) ==
  /\ content # storage
  /\ storage' = content
  /\ call' = Call("tamper", NullUser, storage, GoodStorage, FALSE, "", NullUser, FALSE)
  /\ UNCHANGED formVars
  /\ UNCHANGED <<pageVars, phoneCall, fetchCall>>

StoreNext ==
  \/ \E user \in StoreUsers, env \in StorageEnvs : CallSave(user, env)
  \/ \E env \in StorageEnvs : CallLoad(env)
  \/ \E env \in StorageEnvs : CallClear(env)
  \/ \E env \in StorageEnvs : CallGetAuthState(env)
  \/ \E content \in StoreContents : Tamper(content)

StoreSpec == StoreInit /\ [][StoreNext]_vars

\* ------------------------------------------------------------------------
\* app/page.tsx (LoginPage), app/dashboard/page.tsx (DashboardPage) and
\* components/dashboard-header.tsx, entered with any content of the key
\* ------------------------------------------------------------------------

\* the contents of the key the pages are entered with: nothing, the empty
\* string, text that is not JSON, a valid record, a valid record whose email
\* is empty, a record whose email is not a string
GuardContents ==
  {Absent, EmptyItem, Garbage, JSONstringify(JohnDoe),
   JSONstringify(UserObj(NameObj(John, Doe), Str(""), RawPicture)),
   JSONstringify(UserObj(NameObj(John, Doe), Num("5"), RawPicture))}

loginFormVars ==
  <<phoneNumber, error, isLoading, isRedirecting, retryCount, pending, run,
    lineageFails, fetchFails, lastEvent>>

GuardInit ==
  /\ phoneNumber = <<>>
  /\ error = NoError
  /\ isLoading = FALSE
  /\ isRedirecting = FALSE
  /\ retryCount = 0
  /\ pending = <<>>
  /\ run = NoRun
  /\ lineageFails = 0
  /\ fetchFails = 0
  /\ lastEvent = "mount"
  /\ call = NoCall
  /\ storage \in GuardContents
  /\ page \in {"login", "dashboard"}
  /\ loginPage = LoginPageMounted
  /\ dashboard = DashboardMounted
  /\ header = HeaderMounted
  /\ guard = Entered("visit")
  /\ phoneCall = NoPhoneCall
  /\ fetchCall = NoFetchCall

\* the dashboard shows the header and the profile of its user
ContentShown ==
  /\ page = "dashboard"
  /\ dashboard.loadingState = "ready"
  /\ dashboard.error = "none"
  /\ dashboard.user # NullUser

\* the dashboard shows one of its error views
DashboardErrorShown ==
  /\ page = "dashboard"
  /\ dashboard.loadingState = "ready"
  /\ dashboard.error # "none"

\* the login page shows the login form
FormShown ==
  /\ page = "login"
  /\ ~loginPage.isCheckingAuth
  /\ ~loginPage.authCheckError

\* the second validation of checkAuthentication (dashboard/page.tsx line 47)
dashboardAccepts(user) ==
  /\ user.name.t = "object"
  /\ Truthy(user.email)
  /\ user.picture.t = "object"

\* a checkAuthentication that does not redirect when there is no session
checkOutcome_NoRedirect(authState) ==
  IF ~authState.isAuthenticated \/ authState.user = NullUser THEN "ready"
  ELSE IF ~dashboardAccepts(authState.user) THEN "storage_error"
  ELSE "ready"

\* the branch checkAuthentication takes on the state getAuthState() returned
checkOutcome(authState) ==
  IF ~authState.isAuthenticated \/ authState.user = NullUser THEN "redirecting"
  ELSE IF ~dashboardAccepts(authState.user) THEN "storage_error"
  ELSE "ready"

\* checkAuthentication after its first delay: getAuthState() and the branches
DashCheck(env) ==
  LET authState == getAuthState(storage, env)
      outcome   == checkOutcome(authState)
  IN  /\ page = "dashboard"
      /\ dashboard.loadingState = "checking"
      /\ storage' = authState.store
      /\ dashboard' =
           CASE outcome = "redirecting" ->
                  [dashboard EXCEPT !.loadingState = "redirecting"]
             [] outcome = "storage_error" ->
                  [dashboard EXCEPT !.error = "storage_error", !.loadingState = "ready"]
             [] OTHER ->
                  [dashboard EXCEPT !.user = authState.user, !.loadingState = "ready"]
      /\ guard' = [guard EXCEPT !.event = "check", !.checked = TRUE,
                                !.loads = @ + 1, !.loaded = authState.user,
                                !.readFailed = env.available /\ env.getItem = "throws"]
      /\ UNCHANGED <<page, loginPage, header, call>>
      /\ UNCHANGED <<loginFormVars, phoneCall, fetchCall>>

\* checkAuthentication after its second delay: router.push('/') and its catch
DashRedirect(pushOk) ==
  /\ page = "dashboard"
  /\ dashboard.loadingState = "redirecting"
  /\ IF pushOk
       THEN Mount("login", "guard")
       ELSE /\ dashboard' = [dashboard EXCEPT !.error = "redirect_error",
                                              !.loadingState = "ready"]
            /\ guard' = [guard EXCEPT !.event = "redirect", !.nav = "/",
                                      !.by = "guard"]
            /\ UNCHANGED <<page, loginPage, header>>
            /\ UNCHANGED loginFormVars
  /\ UNCHANGED <<storage, call>>
  /\ UNCHANGED <<phoneCall, fetchCall>>

\* handleRetry of the dashboard's error view: the check starts again
DashRetry ==
  /\ DashboardErrorShown
  /\ dashboard.retryCount < 3
  /\ dashboard' = [dashboard EXCEPT !.retryCount = @ + 1,
                                    !.loadingState = "checking", !.error = "none"]
  /\ guard' = [guard EXCEPT !.event = "retry", !.checked = FALSE, !.loads = 0,
                            !.loaded = NullUser, !.readFailed = FALSE]
  /\ UNCHANGED <<storage, call, page, loginPage, header>>
  /\ UNCHANGED <<loginFormVars, phoneCall, fetchCall>>

\* handleForceLogin: router.push('/'), or window.location.href when it throws
DashForceLogin ==
  /\ DashboardErrorShown
  /\ Mount("login", "force")
  /\ UNCHANGED <<storage, call>>
  /\ UNCHANGED <<phoneCall, fetchCall>>

\* the Refresh Page button of the dashboard's error view
DashReload ==
  /\ DashboardErrorShown
  /\ dashboard.retryCount >= 3
  /\ Mount("dashboard", "reload")
  /\ UNCHANGED <<storage, call>>
  /\ UNCHANGED <<phoneCall, fetchCall>>

\* a handleLogout that goes on as if clearUserFromStorage had returned
headerAfterClear_IgnoresError(cleared) ==
  [isLoggingOut |-> TRUE, logoutError |-> FALSE]

\* the header once clearUserFromStorage has returned or thrown
headerAfterClear(cleared) ==
  IF cleared.threw
    THEN [isLoggingOut |-> FALSE, logoutError |-> TRUE]
    ELSE [isLoggingOut |-> TRUE, logoutError |-> FALSE]

\* handleLogout up to its delay: clearUserFromStorage() and the catch
Logout(env) ==
  LET cleared == clearUserFromStorage(storage, env)
  IN  /\ ContentShown
      /\ ~header.isLoggingOut
      /\ storage' = cleared.store
      /\ header' = headerAfterClear(cleared)
      /\ call' = Call("clear", NullUser, storage, env, cleared.threw,
                      cleared.message, NullUser, FALSE)
      /\ guard' = [guard EXCEPT !.event = "logout", !.nav = "none", !.by = "none",
                                !.cleared = IF cleared.threw THEN "threw" ELSE "ok"]
      /\ UNCHANGED <<page, loginPage, dashboard>>
      /\ UNCHANGED <<loginFormVars, phoneCall, fetchCall>>

\* handleLogout after its delay: router.push('/') and the catch
LogoutRedirect(pushOk) ==
  /\ page = "dashboard"
  /\ header.isLoggingOut
  /\ IF pushOk
       THEN Mount("login", "logout")
       ELSE /\ header' = [isLoggingOut |-> FALSE, logoutError |-> TRUE]
            /\ guard' = [guard EXCEPT !.event = "logoutRedirect", !.nav = "/",
                                      !.by = "logout"]
            /\ UNCHANGED <<page, loginPage, dashboard>>
            /\ UNCHANGED loginFormVars
  /\ UNCHANGED <<storage, call>>
  /\ UNCHANGED <<phoneCall, fetchCall>>

\* a checkAuthStatus whose catch shows the form without an error
loginCheckOutcome_FormOnPushError(authenticated, pushOk) ==
  IF authenticated /\ pushOk THEN "dashboard" ELSE "form"

\* the branch checkAuthStatus takes: the push to the dashboard, the catch of
\* a push that threw, or the form
loginCheckOutcome(authenticated, pushOk) ==
  IF ~authenticated THEN "form"
  ELSE IF pushOk THEN "dashboard"
  ELSE "error"

\* checkAuthStatus of the login page after its delay
LoginCheck(env, pushOk) ==
  LET loaded  == getUserFromStorage(storage, env)
      outcome == loginCheckOutcome(isAuthenticated(storage, env), pushOk)
      checked == [guard EXCEPT !.event = "check", !.checked = TRUE,
                               !.loads = @ + 1, !.loaded = loaded.user,
                               !.readFailed = env.available /\ env.getItem = "throws"]
  IN  /\ page = "login"
      /\ loginPage.isCheckingAuth
      /\ storage' = loaded.store
      /\ CASE outcome = "dashboard" -> Mount("dashboard", "loginPage")
           [] outcome = "error" ->
                /\ loginPage' = [isCheckingAuth |-> FALSE, authCheckError |-> TRUE]
                /\ guard' = [checked EXCEPT !.nav = "/dashboard", !.by = "loginPage"]
                /\ UNCHANGED <<page, dashboard, header>>
                /\ UNCHANGED loginFormVars
           [] OTHER ->
                /\ loginPage' = [isCheckingAuth |-> FALSE, authCheckError |-> FALSE]
                /\ guard' = checked
                /\ UNCHANGED <<page, dashboard, header>>
                /\ UNCHANGED loginFormVars
      /\ UNCHANGED call
      /\ UNCHANGED <<phoneCall, fetchCall>>

\* the Refresh Page button of the login page's error view
LoginReload ==
  /\ page = "login"
  /\ loginPage.authCheckError
  /\ Mount("login", "reload")
  /\ UNCHANGED <<storage, call>>
  /\ UNCHANGED <<phoneCall, fetchCall>>

\* the user opens a route (address bar, link, a completed login)
Visit(route) ==
  /\ Mount(route, "visit")
  /\ UNCHANGED <<storage, call>>
  /\ UNCHANGED <<phoneCall, fetchCall>>

GuardNext ==
  \/ \E env \in StorageEnvs : DashCheck(env)
  \/ \E pushOk \in BOOLEAN : DashRedirect(pushOk)
  \/ DashRetry
  \/ DashForceLogin
  \/ DashReload
  \/ \E env \in StorageEnvs : Logout(env)
  \/ \E pushOk \in BOOLEAN : LogoutRedirect(pushOk)
  \/ \E env \in StorageEnvs, pushOk \in BOOLEAN : LoginCheck(env, pushOk)
  \/ LoginReload
  \/ \E route \in {"login", "dashboard"} : Visit(route)
  \/ \E content \in GuardContents : Tamper(content)

GuardSpec == GuardInit /\ [][GuardNext]_vars

\* ------------------------------------------------------------------------
\* The application: the login form, the guards and the logout together
\* ------------------------------------------------------------------------

\* what the endpoint does in the runs followed here: no answer in time, a
\* record, a record whose email is not a string
AppResponses ==
  { Response("abort", 200, "json", "list", NullUser, TRUE),
    Response("ok", 200, "json", "list", JohnDoe, TRUE),
    Response("ok", 200, "json", "list",
             UserObj(NameObj(John, Doe), Num("5"), RawPicture), TRUE) }

\* the storage in the runs followed here: working, full, missing, with a
\* removeItem that throws, with a getItem that throws
AppEnvs ==
  { GoodStorage, [GoodStorage EXCEPT !.setItem = "quota"],
    [GoodStorage EXCEPT !.available = FALSE],
    [GoodStorage EXCEPT !.removeItem = "throws"],
    [GoodStorage EXCEPT !.getItem = "throws"] }

\* the form is used once the login page shows it; its Refresh Page button
\* loads the login page again, as Visit does
AppNext ==
  \/ FormShown /\ Submit
  \/ FormShown /\ Retry
  \/ \E value \in {LocalPhone, <<"1", "2", "3">>} : FormShown /\ Edit(value)
  \/ \E resp \in AppResponses, env \in AppEnvs, pushOk \in BOOLEAN :
        FormShown /\ FetchSettled(resp, env, pushOk)
  \/ \E env \in AppEnvs : DashCheck(env)
  \/ \E pushOk \in BOOLEAN : DashRedirect(pushOk)
  \/ DashRetry
  \/ DashForceLogin
  \/ DashReload
  \/ \E env \in AppEnvs : Logout(env)
  \/ \E pushOk \in BOOLEAN : LogoutRedirect(pushOk)
  \/ \E env \in AppEnvs, pushOk \in BOOLEAN : LoginCheck(env, pushOk)
  \/ LoginReload
  \/ \E route \in {"login", "dashboard"} : Visit(route)

AppSpec == Init /\ [][AppNext]_vars

\* ------------------------------------------------------------------------
\* lib/validation.ts called directly, on any value
\* ------------------------------------------------------------------------

\* the strings passed: optional whitespace, a prefix, a body, optional
\* whitespace
PhoneLead == { <<>>, <<" ">>, <<"\t", "\n">> }

PhonePrefix ==
  { <<>>, <<"0", "9">>, <<"+", "9", "8", "9">>, <<"0", "0", "9", "8", "9">>,
    <<"0", "8">>, <<"+", "9", "8", "8">>, <<"0", "0", "9", "8">>, <<"9">>,
    <<"9", "8", "9">> }

PhoneBody ==
  { <<>>,
    <<"1", "2", "3", "4", "5", "6", "7", "8", "9">>,
    <<"0", "0", "0", "0", "0", "0", "0", "0", "0">>,
    <<"1", "2", "3", "4", "5", "6", "7", "8">>,
    <<"1", "2", "3", "4", "5", "6", "7", "8", "9", "0">>,
    <<"1", "2", "3", "4", "5", "6", "7", "8", "x">>,
    <<"1", "2", "3", "4", " ", "6", "7", "8", "9">> }

PhoneTrail == { <<>>, <<" ">>, <<"\n">> }

PhoneValues ==
  { PhoneValue("string", lead \o prefix \o body \o trail) :
      lead \in PhoneLead, prefix \in PhonePrefix, body \in PhoneBody,
      trail \in PhoneTrail }
  \cup { PhoneValue(t, <<>>) : t \in {"null", "undefined", "number"} }

PhoneInit == Init

\* a call of validateIranianPhone(input)
CallValidate(input) ==
  /\ phoneCall' = [op |-> "validate", input |-> input,
                   result |-> validateIranianPhoneAny(input)]
  /\ UNCHANGED <<formVars, storage, call, pageVars, fetchCall>>

\* a call of normalizeIranianPhone(input)
CallNormalize(input) ==
  /\ phoneCall' = [op |-> "normalize", input |-> input,
                   result |-> normalizeIranianPhoneAny(input)]
  /\ UNCHANGED <<formVars, storage, call, pageVars, fetchCall>>

PhoneNext ==
  \/ \E input \in PhoneValues : CallValidate(input)
  \/ \E input \in PhoneValues : CallNormalize(input)

PhoneSpec == PhoneInit /\ [][PhoneNext]_vars

\* ------------------------------------------------------------------------
\* fetchRandomUser() followed step by step, with its timers
\* ------------------------------------------------------------------------

\* the time followed after the last timer has gone, in seconds
MaxTime == 12

\* API_CONFIG.REQUEST_TIMEOUT, in seconds
REQUEST_TIMEOUT == 10

\* AbortSignal.timeout(3000) of testAvatarUrl, in seconds
AVATAR_TIMEOUT == 3

FetchPending == {"request", "body", "probe"}

FetchDone == {"returned", "threw"}

\* the steps leave the variables of the pages and of the other calls alone
fetchFrame == <<formVars, storage, call, pageVars, phoneCall>>

clearTimeout_Noop(timer) == timer

\* clearTimeout(timeoutId): a timer that has not fired never will
clearTimeout(timer) == IF timer = "armed" THEN "cancelled" ELSE timer

\* the call ends: it returns the record or throws the ApiError that
\* fetchRandomUser makes of what the network and the endpoint did
Completed(fc, resp, timer) ==
  LET r == fetchRandomUser(resp)
  IN  [fc EXCEPT !.phase = IF r.ok THEN "returned" ELSE "threw",
                 !.timer = timer, !.resp = resp, !.result = r]

FetchInit == Init

\* lines 98-108: the controller, the timer and the request
StartFetch ==
  /\ fetchCall.phase \in {"idle"} \cup FetchDone
  /\ fetchCall' = [NoFetchCall EXCEPT !.phase = "request", !.timer = "armed",
                                      !.requests = 1]
  /\ UNCHANGED fetchFrame

\* a second passes; a timer that is due fires before the next one
Tick ==
  /\ fetchCall.phase # "idle"
  /\ \/ fetchCall.elapsed < MaxTime
     \/ fetchCall.timer = "armed"
     \/ fetchCall.probeTimer = "armed"
  /\ ~(fetchCall.timer = "armed" /\ fetchCall.elapsed >= REQUEST_TIMEOUT)
  /\ ~(/\ fetchCall.probeTimer = "armed"
       /\ fetchCall.elapsed - fetchCall.probeStart >= AVATAR_TIMEOUT)
  /\ fetchCall' = [fetchCall EXCEPT !.elapsed = @ + 1]
  /\ UNCHANGED fetchFrame

\* line 99: the timer fires and aborts the controller; a fetch or a body
\* read on its signal rejects with an AbortError, which the catch block
\* (lines 147-156) turns into the timeout error
TimerFires ==
  /\ fetchCall.timer = "armed"
  /\ fetchCall.elapsed >= REQUEST_TIMEOUT
  /\ LET fc == [fetchCall EXCEPT !.aborted = TRUE]
     IN  fetchCall' =
           IF fetchCall.phase \in {"request", "body"}
             THEN Completed(fc, [fetchCall.resp EXCEPT !.net = "abort"], "fired")
           ELSE IF fetchCall.phase \in FetchDone
             THEN [fc EXCEPT !.timer = "fired", !.lateAbort = TRUE]
           ELSE [fc EXCEPT !.timer = "fired"]
  /\ UNCHANGED fetchFrame

\* lines 102-117: the response arrives, the timer is cleared, a status
\* outside 2xx is thrown and the catch block clears the timer again
HeadersArrive(status) ==
  /\ fetchCall.phase = "request"
  /\ LET resp == [fetchCall.resp EXCEPT !.net = "ok", !.status = status]
         timer == clearTimeout(fetchCall.timer)
     IN  fetchCall' =
           IF status \notin 200..299
             THEN Completed(fetchCall, resp, clearTimeout(timer))
             ELSE [fetchCall EXCEPT !.phase = "body", !.timer = timer,
                                    !.resp = resp]
  /\ UNCHANGED fetchFrame

\* line 102 rejects: "failed" is TypeError 'Failed to fetch', "other" any
\* other rejection; the catch block clears the timer
TransportFails(net) ==
  /\ fetchCall.phase = "request"
  /\ fetchCall' = Completed(fetchCall, [fetchCall.resp EXCEPT !.net = net],
                            clearTimeout(fetchCall.timer))
  /\ UNCHANGED fetchFrame

\* lines 119-137: the body has been read; it is checked and, when accepted,
\* the avatar probe starts with its own timeout signal
BodyArrives(body, results, user) ==
  /\ fetchCall.phase = "body"
  /\ LET resp == [fetchCall.resp EXCEPT !.body = body, !.results = results,
                                        !.user = user]
     IN  fetchCall' =
           IF fetchRandomUser(resp).ok
             THEN [fetchCall EXCEPT !.phase = "probe", !.resp = resp,
                                    !.probeTimer = "armed",
                                    !.probeStart = fetchCall.elapsed,
                                    !.probes = @ + 1]
             ELSE Completed(fetchCall, resp, clearTimeout(fetchCall.timer))
  /\ UNCHANGED fetchFrame

\* lines 80-90 and 137-146: the probe answers (a rejection counts as not ok)
ProbeAnswers(ok) ==
  /\ fetchCall.phase = "probe"
  /\ fetchCall' = Completed([fetchCall EXCEPT !.probeTimer = "done"],
                            [fetchCall.resp EXCEPT !.avatarOk = ok],
                            fetchCall.timer)
  /\ UNCHANGED fetchFrame

\* line 84: the probe's signal times out, the probe rejects and
\* testAvatarUrl returns false
ProbeTimerFires ==
  /\ fetchCall.phase = "probe"
  /\ fetchCall.probeTimer = "armed"
  /\ fetchCall.elapsed - fetchCall.probeStart >= AVATAR_TIMEOUT
  /\ fetchCall' = Completed([fetchCall EXCEPT !.probeTimer = "fired"],
                            [fetchCall.resp EXCEPT !.avatarOk = FALSE],
                            fetchCall.timer)
  /\ UNCHANGED fetchFrame

FetchNext ==
  \/ StartFetch
  \/ Tick
  \/ TimerFires
  \/ \E status \in {200, 404, 500} : HeadersArrive(status)
  \/ \E net \in {"failed", "other"} : TransportFails(net)
  \/ \E resp \in Responses :
       /\ resp.net = "ok" /\ resp.status = 200
       /\ BodyArrives(resp.body, resp.results, resp.user)
  \/ \E ok \in BOOLEAN : ProbeAnswers(ok)
  \/ ProbeTimerFires

FetchSpec == FetchInit /\ [][FetchNext]_vars

\* timers fire when they are due and time passes; nothing makes the remote
\* side answer
FetchLiveSpec ==
  FetchSpec /\ WF_vars(Tick) /\ WF_vars(TimerFires) /\ WF_vars(ProbeTimerFires)

\* ------------------------------------------------------------------------
\* Properties of the login controller
\* ------------------------------------------------------------------------

Last(seq) == seq[Len(seq)]

\* a run has just ended with an error for which retry is allowed
RetryableFailure == lastEvent = "settled" /\ error.retryable

\* C1: after 3 consecutive retryable failures of one lineage (a submit followed
\* only by Try Again), whatever their kind, Try Again is no longer offered and
\* Refresh Page is.
C1_RetryBudget ==
  (RetryableFailure /\ lineageFails >= 3) => (~RetryOffered /\ ResetOffered)

\* C2: a retried run never sets a non-zero retry counter back to 0, neither
\* when it starts nor when it ends, whatever its outcome.
C2_RetryKeepsCounter ==
  (run.kind = "retry" /\ lastEvent \in {"retry", "settled"} /\ run.startCount > 0)
    => retryCount # 0

\* C3: after the n-th consecutive fetch failure of a lineage the counter shown
\* as "Attempt n of 3" equals n, for n = 1, 2, 3.
C3_CounterCountsFetchFailures ==
  (lastEvent = "settled" /\ Last(run.log) = "fetch:fail" /\ fetchFails \in 1..3)
    => retryCount = fetchFails

\* C4: the retry counter never exceeds the budget of 3.
C4_CounterBounded == retryCount <= 3

\* C5: while an error is presented, Try Again is offered exactly when the
\* error is retryable and the counter is below 3, Refresh Page exactly when
\* it is retryable and the counter is at least 3; never both, and neither for
\* a Validation error.
C5_RetryOrReset ==
  error # NoError =>
    /\ RetryOffered <=> (error.retryable /\ retryCount < 3)
    /\ ResetOffered <=> (error.retryable /\ retryCount >= 3)
    /\ ~(RetryOffered /\ ResetOffered)
    /\ error.type = "validation" => (~RetryOffered /\ ~ResetOffered)

\* the budget is exhausted and only Refresh Page is offered
C5_Witness ==
  error # NoError /\ error.retryable /\ retryCount = 3 /\ ResetOffered /\ ~RetryOffered

\* the phone input is empty after trimming or matches no recognized format
InvalidInput(phone) == Trim(phone) = <<>> \/ ~validateIranianPhone(phone)

\* C6: a submission of an empty or malformed phone input ends with a
\* non-retryable Validation error and the counter at 0, without any fetch,
\* save or navigation in that run.
C6_ValidationFailure ==
  (lastEvent \in {"submit", "retry"} /\ InvalidInput(phoneNumber)) =>
    /\ error.type = "validation" /\ ~error.retryable
    /\ retryCount = 0
    /\ run.log = <<"validate:fail">>
    /\ pending = <<>> /\ ~isLoading /\ ~isRedirecting
    /\ ~run.saveWrote /\ page = "login"

\* a malformed number was submitted
C6_Witness ==
  /\ lastEvent = "submit" /\ phoneNumber = <<"1", "2", "3">>
  /\ error.type = "validation" /\ run.log = <<"validate:fail">>

\* the orders in which the steps of one run can occur
SequentialLogs ==
  { <<>>,
    <<"validate:fail">>,
    <<"validate:ok", "fetch:start">>,
    <<"validate:ok", "fetch:start", "fetch:fail">>,
    <<"validate:ok", "fetch:start", "fetch:ok", "save:fail">>,
    <<"validate:ok", "fetch:start", "fetch:ok", "save:ok", "push:fail">>,
    <<"validate:ok", "fetch:start", "fetch:ok", "save:ok", "push:ok">> }

\* C7: within one run the fetch starts only after the validation passed, the
\* save is called only after the fetch succeeded and with the fetched record,
\* and the navigation is invoked only after the save returned without error.
C7_StrictlySequential ==
  /\ run.log \in SequentialLogs
  /\ (lastEvent \in {"submit", "retry", "settled"} /\ Len(run.log) >= 2)
       => validateIranianPhone(phoneNumber)
  /\ run.saved # NullUser => (run.saved = run.fetched /\ "fetch:ok" = run.log[3])
  /\ page = "dashboard" /\ lastEvent = "settled" => run.log[4] = "save:ok"

\* a run went through all four steps and the navigation failed
C7_Witness ==
  /\ lastEvent = "settled" /\ Last(run.log) = "push:fail"
  /\ run.saved = run.fetched /\ run.saved # NullUser

\* C8: at most one identity fetch is in flight, and one is in flight only
\* while the controls are disabled.
C8_OneFetchInFlight ==
  /\ Len(pending) <= 1
  /\ pending # <<>> => Disabled

\* a retried run is waiting for its fetch
C8_Witness == Len(pending) = 1 /\ run.kind = "retry" /\ isLoading

\* C9: when a run reaches Done, load() returns the record fetched in that run
\* and isAuthenticated() is true.
C9_DoneIsAuthenticated ==
  (lastEvent = "settled" /\ page = "dashboard" /\ run.saveWrote) =>
    /\ getUserFromStorage(storage, GoodStorage).user = JSONstringify(run.fetched).val
    /\ isAuthenticated(storage, GoodStorage)

\* the save failed because of the storage itself (unreachable, full, or
\* the read-back differing), not because of its argument
SaveFailedOnStorage == run.saveMessage \in {MsgNotAvailable, MsgQuota, MsgVerify}

\* C10: save(user) fails with the invalid-user-data error and writes nothing
\* whenever user does not satisfy the UserRecord invariant (all six leaf
\* fields present and strings).
C10_SaveRejectsInvalid ==
  (/\ lastEvent = "settled" /\ run.saved # NullUser
   /\ ~UserRecordInvariant(run.saved) /\ ~SaveFailedOnStorage)
    => (run.saveMessage = MsgInvalidUser /\ ~run.saveWrote)

\* ------------------------------------------------------------------------
\* Properties of the session store
\* ------------------------------------------------------------------------

\* the item parses to a record whose six leaves are strings
ValidItem(item) == item.kind = "json" /\ UserRecordInvariant(item.val)

\* C11: whatever the key holds, getUserFromStorage() returns a record only if
\* the content parses and all six leaf fields are strings, and then it returns
\* that record; isAuthenticated() is true only in that case.
C11_LoadOnlyValid ==
  call.op = "load" =>
    /\ call.user # NullUser => (ValidItem(call.before) /\ call.user = call.before.val)
    /\ isAuthenticated(call.before, call.env) => ValidItem(call.before)

C11_Witness ==
  /\ call.op = "load"
  /\ call.user # NullUser
  /\ call.user.email = Str("")

\* C12: for every record u whose six leaves are strings (empty strings
\* included) and every content of the key, on a working storage
\* saveUserToStorage(u) succeeds and the getUserFromStorage() that follows
\* returns a record deep-equal to u.
C12_RoundTrip ==
  (call.op = "save" /\ UserRecordInvariant(call.arg) /\ StorageFaults(call.env) = {})
    => /\ ~call.threw
       /\ getUserFromStorage(storage, call.env).user = call.arg

\* the key holds something that is not the JSON text of a valid record
CorruptItem(item) == item.kind # "absent" /\ ~ValidItem(item)

\* C13: when the key holds content that does not parse or is structurally
\* invalid, getUserFromStorage() on a working storage returns null and deletes
\* the item, so that the key is absent and every later load returns null too.
C13_CorruptionSelfHeal ==
  (call.op = "load" /\ CorruptItem(call.before) /\ StorageFaults(call.env) = {})
    => /\ call.user = NullUser
       /\ storage = Absent
       /\ getUserFromStorage(storage, call.env) = Loaded(NullUser, Absent)

\* C14: getUserFromStorage() never throws, whatever the storage does: it
\* returns null when localStorage is unavailable, when reading the key throws,
\* and when the removal that follows a failed read throws too.
C14_LoadNeverThrows ==
  call.op = "load" =>
    /\ ~call.threw
    /\ (StorageFaults(call.env) \cap {"available", "getItem"} # {}) => call.user = NullUser

C14_Witness ==
  /\ call.op = "load"
  /\ StorageFaults(call.env) = {"getItem", "removeItem"}
  /\ ~call.threw
  /\ call.user = NullUser
  /\ storage = call.before
  /\ ValidItem(call.before)

\* ------------------------------------------------------------------------
\* Properties of the identity client and of the errors presented
\* ------------------------------------------------------------------------

\* the run that has just ended got this answer from the network
SettledWith(nets) == lastEvent = "settled" /\ run.resp.net \in nets

\* C15: a fetch that fails because the request timed out and was aborted, or
\* because the transport failed, is presented as a retryable error of type
\* network, never api or general.
C15_NetworkFailureKind ==
  SettledWith({"abort", "failed"}) => (error.type = "network" /\ error.retryable)

\* C16: when the endpoint answers a fresh submission with a failure status c,
\* fetchRandomUser fails with an error of status c and message 'API request
\* failed with status c', and the form ends presenting a retryable error of
\* type api with the retry counter at 1.
C16_HttpFailure ==
  (/\ SettledWith({"ok"}) /\ run.kind = "submit"
   /\ run.resp.status \notin 200..299)
    => /\ fetchRandomUser(run.resp) =
            ApiError("API request failed with status " \o ToString(run.resp.status),
                     run.resp.status)
       /\ error.type = "api" /\ error.retryable
       /\ retryCount = 1

\* C17: an unexpected exception inside fetchRandomUser, such as a response
\* body that fails to parse or a rejection that is neither an abort nor a
\* transport failure, ends with the form presenting an error of type general.
C17_UnexpectedIsGeneral ==
  (\/ SettledWith({"other"})
   \/ SettledWith({"ok"}) /\ run.resp.status \in 200..299 /\ run.resp.body # "json")
    => error.type = "general"

Range(seq) == { seq[i] : i \in DOMAIN seq }

\* C18: when saveUserToStorage fails after a successful fetch, the form
\* presents the retryable storage error and does not navigate; the record
\* fetched is not kept, so the run that Try Again starts issues a new fetch
\* first and saves only what that fetch returned.
C18_StorageFailure ==
  /\ (lastEvent = "settled" /\ Last(run.log) = "save:fail")
       => /\ error = ErrorState(MsgSaveFailed, "storage", TRUE)
          /\ page = "login" /\ ~isRedirecting
          /\ "push:ok" \notin Range(run.log)
  /\ (run.kind = "retry" /\ run.from = "storage")
       => /\ SubSeq(run.log, 1, 2) = <<"validate:ok", "fetch:start">>
          /\ (Range(run.log) \cap {"save:ok", "save:fail"} # {})
               => /\ run.log[3] = "fetch:ok"
                  /\ run.saved = fetchRandomUser(run.resp).user

C18_Witness ==
  /\ run.kind = "retry" /\ run.from = "storage"
  /\ lastEvent = "settled"
  /\ "save:ok" \in Range(run.log)

\* C19: whenever an error is presented, its retryable flag is false exactly
\* when its type is validation; every other type is retryable.
C19_RetryableIffNotValidation ==
  error # NoError =>
    /\ error.type \in {"validation", "network", "api", "storage", "redirect", "general"}
    /\ error.retryable <=> error.type # "validation"

C19_Witness ==
  /\ lastEvent = "settled"
  /\ error = ErrorState(MsgNoUserData, "api", TRUE)

\* C20: fetchRandomUser never returns a record that fails the UserRecord
\* invariant: when the first record of the list lacks, or has a non-string
\* value for, one of the name, email or picture fields, the call fails with
\* 'Invalid user data: missing required fields'.
C20_FetchReturnsValid ==
  (/\ SettledWith({"ok"}) /\ run.resp.status \in 200..299
   /\ run.resp.body = "json" /\ run.resp.results = "list")
    => /\ run.fetched # NullUser => UserRecordInvariant(run.fetched)
       /\ (run.resp.user.t = "object" /\ ~UserRecordInvariant(run.resp.user))
            => fetchRandomUser(run.resp) = ApiError(MsgInvalidUser, 0)

\* C21: when router.push fails after a successful save, the form leaves the
\* redirecting state and presents the retryable redirect error; when it does
\* not fail, the run ends on the dashboard with no error presented.
C21_RedirectOutcome ==
  /\ (lastEvent = "settled" /\ Last(run.log) = "push:fail")
       => /\ SubSeq(run.log, 3, 5) = <<"fetch:ok", "save:ok", "push:fail">>
          /\ error = ErrorState(MsgRedirectFailed, "redirect", TRUE)
          /\ ~isRedirecting /\ ~isLoading
          /\ page = "login"
  /\ (lastEvent = "settled" /\ Last(run.log) = "push:ok")
       => /\ SubSeq(run.log, 3, 5) = <<"fetch:ok", "save:ok", "push:ok">>
          /\ error = NoError
          /\ isRedirecting
          /\ page = "dashboard"

C21_Witness ==
  /\ lastEvent = "settled"
  /\ Last(run.log) = "push:fail"
  /\ error.type = "redirect"
  /\ ~isRedirecting

\* C22 as stated: whenever saveUserToStorage(u) returns without error, the
\* item under the key is the serialization of u.
C22_SaveVerified ==
  (call.op = "save" /\ ~call.threw) => storage = JSONstringify(call.arg)

\* C22, amended: in a build whose NODE_ENV is not 'test', whenever
\* saveUserToStorage(u) returns without error the item under the key is the
\* serialization of u; a write that left the item missing or different makes
\* the call fail with 'Failed to verify stored user data'.
C22_SaveVerifiedOutsideTest ==
  (call.op = "save" /\ call.env.nodeEnv # "test")
    => /\ ~call.threw => storage = JSONstringify(call.arg)
       /\ (/\ StorageFaults(call.env) = {"setItem"} /\ call.env.setItem = "dropped"
           /\ saveAccepts(call.arg) /\ call.before # JSONstringify(call.arg))
            => (call.threw /\ call.message = MsgVerify /\ storage = call.before)

C22_Witness ==
  /\ call.op = "save"
  /\ call.env.nodeEnv # "test"
  /\ call.threw /\ call.message = MsgVerify
  /\ storage = Absent

\* C23: a setItem that fails for exceeded quota always makes
\* saveUserToStorage fail with 'Storage quota exceeded...', an unavailable
\* localStorage always with 'Browser storage is not available...'; neither
\* message comes from the other cause, and neither cause is reported as
\* 'Invalid user data'.
C23_SaveFailureKinds ==
  call.op = "save" =>
    /\ ~call.env.available => (call.threw /\ call.message = MsgNotAvailable)
    /\ (call.env.available /\ call.env.setItem = "quota" /\ saveAccepts(call.arg))
         => (call.threw /\ call.message = MsgQuota)
    /\ call.message = MsgQuota => (call.env.available /\ call.env.setItem = "quota")
    /\ call.message = MsgNotAvailable => ~call.env.available
    /\ {MsgQuota, MsgNotAvailable} \cap {MsgInvalidUser} = {}

C23_Witness ==
  /\ call.op = "save"
  /\ call.env.setItem = "quota"
  /\ call.threw /\ call.message = MsgQuota
  /\ storage = call.before

\* C24 as stated: clearUserFromStorage() either returns normally, and then
\* the key is absent and isAuthenticated() is false, or throws; it throws
\* whenever the storage cannot be reached or the key is still present after
\* the removal.
C24_ClearPostcondition ==
  call.op = "clear" =>
    /\ ~call.threw => (storage = Absent /\ ~isAuthenticated(storage, call.env))
    /\ (~call.env.available \/ call.env.removeItem = "throws") => call.threw
    /\ storage # Absent => call.threw

\* C24, amended: in a build whose NODE_ENV is not 'test',
\* clearUserFromStorage() either returns normally, and then the key is absent
\* and isAuthenticated() is false, or throws; it throws whenever the key is
\* still present after the removal. In every build it throws when the storage
\* cannot be reached.
C24_ClearPostconditionOutsideTest ==
  call.op = "clear" =>
    /\ (~call.env.available \/ call.env.removeItem = "throws") => call.threw
    /\ call.env.nodeEnv # "test" =>
         /\ ~call.threw => (storage = Absent /\ ~isAuthenticated(storage, call.env))
         /\ storage # Absent => call.threw

C24_Witness ==
  /\ call.op = "clear"
  /\ call.env.nodeEnv # "test"
  /\ call.env.removeItem = "dropped"
  /\ call.threw /\ call.message = MsgClearFailed
  /\ ValidItem(storage)

\* C25: the state getAuthState() returns has isAuthenticated true exactly
\* when its user is not null, for every content of the key and every storage
\* failure; and it is authenticated only for a valid stored record, which is
\* the user it returns.
C25_AuthStateConsistent ==
  call.op = "getAuthState" =>
    /\ call.isAuthenticated <=> call.user # NullUser
    /\ call.isAuthenticated => (ValidItem(call.before) /\ call.user = call.before.val)
    /\ ~call.threw

C25_Witness ==
  /\ call.op = "getAuthState"
  /\ CorruptItem(call.before)
  /\ ~call.isAuthenticated
  /\ call.user = NullUser

\* ------------------------------------------------------------------------
\* Properties of the guards of the two pages and of the logout
\* ------------------------------------------------------------------------

C27_LoginGuard ==
  /\ guard.arrived = "loginPage" => page = "dashboard"
  /\ page = "login" =>
       /\ FormShown
            => (guard.checked /\ guard.loaded = NullUser /\ guard.nav = "none")
       /\ (guard.checked /\ guard.loaded = NullUser)
            => (FormShown /\ guard.nav = "none")
       /\ (guard.checked /\ guard.loaded # NullUser)
            => /\ ~FormShown
               /\ guard.nav = "/dashboard" /\ guard.by = "loginPage"
               /\ loginPage.authCheckError

C27_Witness ==
  /\ page = "login"
  /\ guard.checked /\ guard.loaded # NullUser
  /\ loginPage.authCheckError
  /\ ~FormShown

\* C28 as stated: the logout invokes router.push('/') only after
\* clearUserFromStorage() returned without error, and after such a clear
\* isAuthenticated() is false; when the clear throws, no navigation is
\* invoked, the error is shown and the Logout button is enabled again.
C28_LogoutClearsFirst ==
  /\ (header.isLoggingOut \/ guard.by = "logout") => guard.cleared = "ok"
  /\ (call.op = "clear" /\ ~call.threw) => ~isAuthenticated(storage, GoodStorage)
  /\ (guard.event = "logout" /\ guard.cleared = "threw")
       => /\ page = "dashboard"
          /\ header.logoutError /\ ~header.isLoggingOut
          /\ guard.by # "logout"

\* C28, amended: as stated, with isAuthenticated() false after a clear that
\* returned without error in a build whose NODE_ENV is not 'test'.
C28_LogoutClearsFirstOutsideTest ==
  /\ (header.isLoggingOut \/ guard.by = "logout") => guard.cleared = "ok"
  /\ (call.op = "clear" /\ ~call.threw /\ call.env.nodeEnv # "test")
       => ~isAuthenticated(storage, GoodStorage)
  /\ (guard.event = "logout" /\ guard.cleared = "threw")
       => /\ page = "dashboard"
          /\ header.logoutError /\ ~header.isLoggingOut
          /\ guard.by # "logout"

C28_Witness ==
  /\ page = "login"
  /\ guard.arrived = "logout"
  /\ call.op = "clear" /\ ~call.threw /\ ValidItem(call.before)
  /\ storage = Absent
  /\ FormShown

\* ------------------------------------------------------------------------
\* Properties of the phone validation
\* ------------------------------------------------------------------------

\* s is the prefix followed by exactly 9 digits
IsShape(s, prefix) ==
  /\ Len(s) = Len(prefix) + 9
  /\ SubSeq(s, 1, Len(prefix)) = prefix
  /\ \A i \in (Len(prefix) + 1)..Len(s) : s[i] \in Digits

\* '09', '+989' or '00989' followed by 9 digits
ValidShape(s) ==
  \/ IsShape(s, <<"0", "9">>)
  \/ IsShape(s, <<"+", "9", "8", "9">>)
  \/ IsShape(s, <<"0", "0", "9", "8", "9">>)

\* the last 9 characters of s
LastNine(s) == SubSeq(s, Len(s) - 8, Len(s))

\* C29: validateIranianPhone(s) is true exactly when s is a string whose
\* trimmed form is '09', '+989' or '00989' followed by 9 digits; for every
\* other value, empty, whitespace-only and non-string ones included, it
\* returns false and does not throw.
C29_ValidateExactly ==
  phoneCall.op = "validate" =>
    /\ ~phoneCall.result.threw
    /\ phoneCall.result.valid
         <=> (phoneCall.input.t = "string" /\ ValidShape(Trim(phoneCall.input.chars)))

C29_Witness ==
  /\ phoneCall.op = "validate"
  /\ phoneCall.input.t = "number"
  /\ ~phoneCall.result.threw /\ ~phoneCall.result.valid

\* C30: for every valid input, normalizeIranianPhone returns '09' followed by
\* 9 digits, the same last 9 digits as the input; every invalid input is
\* returned unchanged.
C30_NormalizeCanonical ==
  phoneCall.op = "normalize" =>
    IF phoneCall.input.t = "string" /\ ValidShape(Trim(phoneCall.input.chars))
      THEN /\ phoneCall.result.value.t = "string"
           /\ IsShape(phoneCall.result.value.chars, <<"0", "9">>)
           /\ LastNine(phoneCall.result.value.chars)
                = LastNine(Trim(phoneCall.input.chars))
      ELSE phoneCall.result.value = phoneCall.input

C30_Witness ==
  /\ phoneCall.op = "normalize"
  /\ Trim(phoneCall.input.chars) = PlusPhone
  /\ phoneCall.input.chars # PlusPhone
  /\ phoneCall.result.value.chars = LocalPhone

\* C31: normalizeIranianPhone is idempotent: normalising its own result
\* gives that result again, for every valid input and for every invalid one.
C31_NormalizeIdempotent ==
  phoneCall.op = "normalize" =>
    /\ ~normalizeIranianPhoneAny(phoneCall.result.value).threw
    /\ normalizeIranianPhoneAny(phoneCall.result.value).value
         = phoneCall.result.value

C31_Witness ==
  /\ phoneCall.op = "normalize"
  /\ Trim(phoneCall.input.chars) = ZeroPhone
  /\ phoneCall.input.chars # ZeroPhone
  /\ phoneCall.result.value # phoneCall.input
  /\ normalizeIranianPhoneAny(phoneCall.result.value).value = phoneCall.result.value

\* ------------------------------------------------------------------------
\* Properties of fetchRandomUser
\* ------------------------------------------------------------------------

\* C32: every call of fetchRandomUser eventually returns or throws, in every
\* phase: waiting for the response, reading the body, probing the avatar.
C32_FetchCompletes ==
  (fetchCall.phase \in FetchPending) ~> (fetchCall.phase \in FetchDone)

\* C33: a call of fetchRandomUser sends exactly one request to the identity
\* endpoint, and once it has returned or thrown its timer is no longer armed
\* and no abort has fired since.
C33_OneRequestTimerCleared ==
  /\ fetchCall.phase # "idle" => fetchCall.requests = 1
  /\ fetchCall.phase \in FetchDone =>
       /\ fetchCall.timer \in {"cancelled", "fired"}
       /\ ~fetchCall.lateAbort

C33_Witness ==
  /\ fetchCall.phase = "returned"
  /\ fetchCall.requests = 1
  /\ fetchCall.timer = "cancelled"
  /\ fetchCall.elapsed > REQUEST_TIMEOUT
  /\ ~fetchCall.aborted

\* ------------------------------------------------------------------------
\* Properties of the application as a whole
\* ------------------------------------------------------------------------

\* the step is the save of a login run: the item becomes the text of the
\* record that the run's fetch returned
SavedByRun ==
  /\ lastEvent' = "settled"
  /\ pending' # pending
  /\ fetchRandomUser(run'.resp).ok
  /\ run'.fetched = fetchRandomUser(run'.resp).user
  /\ storage' = JSONstringify(run'.fetched)

\* the step is the clear of a logout
ClearedByLogout ==
  /\ guard'.event = "logout"
  /\ call'.op = "clear"
  /\ storage' = Absent

\* the step is the load of a guard's check, and it deleted the item
DeletedByLoad ==
  /\ guard' # guard
  /\ guard'.event = "check"
  /\ guard'.loads = guard.loads + 1
  /\ guard'.loaded = NullUser
  /\ storage' = Absent

\* C34: the stored item changes only by the save of a login run, with the
\* record that run fetched, by the clear of a logout, or by the delete of a
\* load that found an invalid record; every other step, a load of a valid
\* record included, leaves it as it was.
C34_StoreFrame ==
  [][storage' # storage =>
       \/ SavedByRun
       \/ ClearedByLogout
       \/ DeletedByLoad /\ ~ValidItem(storage)]_vars

\* C34 amended: the delete of a load happens on an invalid record or when the
\* read of the item threw.
C34_StoreFrameOrFailedRead ==
  [][storage' # storage =>
       \/ SavedByRun
       \/ ClearedByLogout
       \/ DeletedByLoad /\ (~ValidItem(storage) \/ guard'.readFailed)]_vars

\* a logout has cleared the record that a login run had saved
C34_Witness ==
  /\ guard.event = "logout"
  /\ call.op = "clear"
  /\ ValidItem(call.before)
  /\ storage = Absent
  /\ page = "dashboard"

\* C35: on every stored content the two guards agree: the login page's check
\* redirects to the dashboard (isAuthenticated() is true) exactly when the
\* dashboard's check, on the same content and a working storage, shows the
\* user.
C35_GuardsAgree ==
  isAuthenticated(storage, GoodStorage)
    <=> checkOutcome(getAuthState(storage, GoodStorage)) = "ready"

\* ------------------------------------------------------------------------
\* Further properties of the session store
\* ------------------------------------------------------------------------

\* C36: a saveUserToStorage() that fails because the user is invalid or
\* because the storage is not available leaves the stored item as it was.
C36_FailedSaveKeepsItem ==
  (/\ call.op = "save"
   /\ call.threw
   /\ call.message \in {MsgInvalidUser, MsgNotAvailable})
    => storage = call.before

C36_Witness ==
  /\ call.op = "save"
  /\ call.threw
  /\ call.message = MsgInvalidUser
  /\ ~saveAccepts(call.arg)
  /\ ValidItem(call.before)
  /\ storage = call.before

\* ------------------------------------------------------------------------
\* Further properties of the login controller
\* ------------------------------------------------------------------------

\* C37: when an error is presented the form is neither loading nor
\* redirecting, so its input and button are enabled; while a run is loading no
\* error is presented; and when a run has ended, on any path, the loading
\* flag is cleared.
C37_ErrorLeavesFormUsable ==
  /\ error # NoError => (~isLoading /\ ~isRedirecting /\ ~Disabled)
  /\ isLoading => error = NoError
  /\ lastEvent = "settled" => ~isLoading

C37_Witness ==
  /\ lastEvent = "settled"
  /\ error.type = "storage"
  /\ Last(run.log) = "save:fail"
  /\ ~isLoading /\ ~isRedirecting

\* C38: when a redirect error is presented the record fetched in that run is
\* stored, so that getUserFromStorage() returns it; a retry from that error
\* fetches again, and its save replaces the stored record with the one newly
\* fetched.
C38_RedirectErrorAfterSave ==
  /\ error.type = "redirect"
       => /\ run.fetched # NullUser
          /\ getUserFromStorage(storage, GoodStorage).user = run.fetched
  /\ (run.kind = "retry" /\ run.from = "redirect")
       => /\ SubSeq(run.log, 1, 2) = <<"validate:ok", "fetch:start">>
          /\ (Len(run.log) >= 4 /\ run.log[4] = "save:ok")
               => getUserFromStorage(storage, GoodStorage).user = run.fetched

\* C39: a change of the phone input happens only while no run is loading or
\* redirecting, hence with no fetch in flight; it clears the error presented
\* and resets retryCount to 0, also after the retry budget was used up.
C39_EditClearsError ==
  [][(phoneNumber' # phoneNumber /\ lastEvent' = "edit")
       => /\ ~isLoading /\ ~isRedirecting
          /\ pending = <<>>
          /\ error' = NoError
          /\ error # NoError => retryCount' = 0
          /\ error = NoError => retryCount' = retryCount]_vars

\* the input was changed after three consecutive failed fetches
C39_Witness ==
  /\ lastEvent = "edit"
  /\ fetchFails = 3
  /\ run.startCount = 2
  /\ error = NoError
  /\ retryCount = 0

====
